---- MODULE Spec2Model ----
(***************************************************************************)
(* A model of src/task.py: the Task record with its dictionary             *)
(* serialization, and the TodoList store that keeps a list of tasks in     *)
(* memory and rewrites a JSON backing file after every mutation.           *)
(*                                                                         *)
(* A datetime is [sec, usec]; its ISO text is the sequence of its printed  *)
(* fields (<<sec>> when usec = 0, <<sec, usec>> otherwise).  The backing   *)
(* file is a sequence of JSON tokens.  None is the empty sequence <<>> and *)
(* a text value s is <<s>>.                                                *)
(***************************************************************************)
EXTENDS Integers, Sequences, FiniteSets, TLC

VARIABLES phase, tasks, file, clock, out, listed

vars == <<phase, tasks, file, clock, out, listed>>

(* ------------------------------ bounds --------------------------------- *)
MaxTasks == 2
MaxClock == 2
TicksPerSec == 2

(* ------------------------------ datetime ------------------------------- *)
DateTime(t) == [sec |-> t \div TicksPerSec, usec |-> t % TicksPerSec]

now == DateTime(clock)

\* isoformat(timespec='seconds'): the microseconds are not printed
isoformat_seconds(dt) == <<dt.sec>>

isoformat(dt) == IF dt.usec = 0 THEN <<dt.sec>> ELSE <<dt.sec, dt.usec>>

ValidIso(s) == /\ Len(s) \in {1, 2}
               /\ Len(s) = 2 => s[2] \in 0..(TicksPerSec - 1)

fromisoformat(s) == [sec |-> s[1], usec |-> IF Len(s) = 2 THEN s[2] ELSE 0]

(* -------------------------------- Task --------------------------------- *)
None == <<>>

Task_init(description, priority, due_date, completed, t) ==
    [description |-> description, priority |-> priority, due_date |-> due_date,
     completed |-> completed, created_at |-> DateTime(t)]

\* a to_dict that leaves the completed flag at its default
to_dict_pending(task) ==
    [description |-> task.description, priority |-> task.priority,
     due_date |-> task.due_date, completed |-> FALSE,
     created_at |-> isoformat(task.created_at)]

to_dict(task) ==
    [description |-> task.description, priority |-> task.priority,
     due_date |-> task.due_date, completed |-> task.completed,
     created_at |-> isoformat(task.created_at)]

RequiredKeys == {"description", "priority", "due_date", "completed", "created_at"}

\* from_dict raises KeyError on a missing key and ValueError on a bad timestamp
from_dict_raises(data) ==
    \/ ~(RequiredKeys \subseteq DOMAIN data)
    \/ ~ValidIso(data.created_at)

\* from_dict without its created_at assignment: the constructor's time stays
constructed_created_at(task, data) == task.created_at

parsed_created_at(task, data) == fromisoformat(data.created_at)

from_dict(data, t) ==
    LET task == Task_init(data.description, data.priority, data.due_date,
                          data.completed, t)
    IN  [task EXCEPT !.created_at = parsed_created_at(task, data)]

(* -------------------------------- JSON --------------------------------- *)
Open == [t |-> "["]
Close == [t |-> "]"]
Number == [t |-> "42"]
Obj(d) == [t |-> "{}", v |-> d]

json_dump(list) ==
    <<Open>> \o [i \in 1..Len(list) |-> Obj(list[i])] \o <<Close>>

IsArrayText(text) ==
    /\ Len(text) >= 2
    /\ text[1] = Open
    /\ text[Len(text)] = Close
    /\ \A i \in 2..(Len(text) - 1) : text[i].t = "{}"

IsNumberText(text) == text = <<Number>>

\* json.load raises JSONDecodeError on anything that is not one JSON value
json_load_raises(text) == ~IsArrayText(text) /\ ~IsNumberText(text)

json_load(text) ==
    IF IsArrayText(text)
    THEN [kind |-> "array",
          items |-> [i \in 1..(Len(text) - 2) |-> text[i + 1].v]]
    ELSE [kind |-> "number", items |-> <<>>]

(* ------------------------------ inputs --------------------------------- *)
\* the arguments add_task is called with
\* (priority <<>>: the argument is left out; <<p>>: priority p is passed)
AddInputs ==
    {[description |-> "a", priority |-> <<>>, due_date |-> None],
     [description |-> "b", priority |-> <<"high">>, due_date |-> <<"fri">>]}

\* the 1-based task numbers mark_task_complete and remove_task are called with
Indices == (-(MaxTasks + 1))..(MaxTasks + 1)

\* the filter_type values list_tasks is called with
Filters == {"none", "completed", "pending"}

\* records a backing file may hold when the program starts
StoredPlain ==
    [description |-> "a", priority |-> "medium", due_date |-> None,
     completed |-> FALSE, created_at |-> <<0>>]
StoredPadded ==
    [description |-> "b", priority |-> "high", due_date |-> <<"fri">>,
     completed |-> TRUE, created_at |-> <<0, 0>>]
StoredNoKey == [description |-> "a", priority |-> "medium"]
StoredBadTime ==
    [description |-> "a", priority |-> "medium", due_date |-> None,
     completed |-> FALSE, created_at |-> <<>>]

FileAbsent == [exists |-> FALSE, text |-> <<>>]
FileOf(text) == [exists |-> TRUE, text |-> text]

\* the backing files the program may find when it starts
InitialFiles ==
    {FileAbsent,
     FileOf(<<>>), FileOf(<<Open>>), FileOf(<<Number>>),
     FileOf(json_dump(<<>>)),
     FileOf(json_dump(<<StoredPlain>>)),
     FileOf(json_dump(<<StoredPadded>>)),
     FileOf(json_dump(<<StoredPlain, StoredPadded>>)),
     FileOf(json_dump(<<StoredNoKey>>)),
     FileOf(json_dump(<<StoredBadTime>>)),
     FileOf(json_dump(<<StoredPlain, StoredNoKey>>))}

(* ------------------------------ TodoList ------------------------------- *)
\* open(filename, 'a'): the text goes after what the file held
append_text(old, text) == old \o text

\* open(filename, 'w') truncates: what the file holds once `text` is written
write_text(old, text) == text

\* save_tasks: the outcomes of one call, [raised, file].  The write succeeds,
\* or open() raises and the file is untouched, or the write raises after
\* open() truncated the file and a prefix of the text went out.
save_tasks(list) ==
    LET text == json_dump([i \in 1..Len(list) |-> to_dict(list[i])])
        full == write_text(file.text, text)
    IN  {[raised |-> FALSE, file |-> FileOf(full)]}
        \cup {[raised |-> TRUE, file |-> file]}
        \cup {[raised |-> TRUE, file |-> FileOf(SubSeq(text, 1, k))] :
                 k \in 0..(Len(text) - 1)}

\* load_tasks: [raised, tasks].  Only JSONDecodeError is caught.
load_tasks(f, t) ==
    IF ~f.exists THEN [raised |-> FALSE, tasks |-> <<>>]
    ELSE IF json_load_raises(f.text) THEN [raised |-> FALSE, tasks |-> <<>>]
    ELSE LET task_data == json_load(f.text) IN
         IF task_data.kind # "array"
         THEN [raised |-> TRUE, tasks |-> <<>>]
         ELSE IF \E i \in DOMAIN task_data.items :
                     from_dict_raises(task_data.items[i])
         THEN [raised |-> TRUE, tasks |-> <<>>]
         ELSE [raised |-> FALSE,
               tasks |-> [i \in DOMAIN task_data.items |->
                             from_dict(task_data.items[i], t)]]

\* Python list indexing: i is in range for a list of n items
InRange(i, n) == -n <= i /\ i <= n - 1

\* the 1-based position Python's list index i denotes in a list of n items
Position(i, n) == IF i >= 0 THEN i + 1 ELSE n + i + 1

\* self.tasks.pop(): the index is left out and the last item goes
RemoveLast(s, p) == SubSeq(s, 1, Len(s) - 1)

RemoveAt(s, p) == SubSeq(s, 1, p - 1) \o SubSeq(s, p + 1, Len(s))

\* the pending branch written with the completed branch's condition
Keep_copied(filter_type, task) ==
    CASE filter_type = "completed" -> task.completed
      [] filter_type = "pending" -> task.completed
      [] OTHER -> TRUE

Keep(filter_type, task) ==
    CASE filter_type = "completed" -> task.completed
      [] filter_type = "pending" -> ~task.completed
      [] OTHER -> TRUE

\* the positions in `list` of the tasks list_tasks prints, in printing order;
\* the number printed beside each is its index in this sequence
filtered_tasks(list, filter_type) ==
    SelectSeq([i \in 1..Len(list) |-> i],
              LAMBDA p : Keep(filter_type, list[p]))

\* what the last call printed or raised
Result(op, res) == [op |-> op, res |-> res]

Init ==
    /\ phase = "off"
    /\ tasks = <<>>
    /\ file \in InitialFiles
    /\ clock = 0
    /\ out = Result("none", "ok")
    /\ listed = <<>>

\* time passes
Tick ==
    /\ clock < MaxClock
    /\ clock' = clock + 1
    /\ UNCHANGED <<phase, tasks, file, out, listed>>

\* a constructor that creates the backing file when there is none
Start_creating ==
    /\ phase \in {"off", "crashed"}
    /\ LET r == load_tasks(file, clock) IN
         /\ tasks' = r.tasks
         /\ phase' = IF r.raised THEN "crashed" ELSE "loaded"
         /\ out' = Result("init", IF r.raised THEN "raised" ELSE "ok")
    /\ listed' = <<>>
    /\ file' = IF file.exists THEN file ELSE FileOf(json_dump(<<>>))
    /\ UNCHANGED clock

\* main_menu constructs the store: TodoList.__init__, which calls load_tasks
Start ==
    /\ phase \in {"off", "crashed"}
    /\ LET r == load_tasks(file, clock) IN
         /\ tasks' = r.tasks
         /\ phase' = IF r.raised THEN "crashed" ELSE "loaded"
         /\ out' = Result("init", IF r.raised THEN "raised" ELSE "ok")
    /\ listed' = <<>>
    /\ UNCHANGED <<file, clock>>

\* choice 7: the process ends; tasks keeps what the store held
Exit ==
    /\ phase = "loaded"
    /\ phase' = "off"
    /\ out' = Result("exit", "ok")
    /\ listed' = <<>>
    /\ UNCHANGED <<tasks, file, clock>>

\* the priority parameter of add_task, 'medium' when the argument is left out
priority_arg(p) == IF p = <<>> THEN "medium" ELSE p[1]

\* self.tasks.insert(0, task): the task goes in front
insert_task(list, task) == <<task>> \o list

\* self.tasks.append(task)
append_task(list, task) == Append(list, task)

add_task(inp) ==
    /\ phase = "loaded"
    /\ Len(tasks) < MaxTasks
    /\ LET task == Task_init(inp.description, priority_arg(inp.priority),
                             inp.due_date, FALSE, clock)
           appended == append_task(tasks, task)
       IN  \E o \in save_tasks(appended) :
             /\ tasks' = appended
             /\ file' = o.file
             /\ phase' = IF o.raised THEN "crashed" ELSE "loaded"
             /\ out' = Result("add", IF o.raised THEN "raised" ELSE "ok")
    /\ listed' = <<>>
    /\ UNCHANGED clock

\* a list_tasks that assigns the filtered list to self.tasks
list_tasks_narrowing(filter_type) ==
    /\ phase = "loaded"
    /\ IF tasks = <<>>
       THEN /\ listed' = <<>>
            /\ out' = Result("list", "empty")
            /\ tasks' = tasks
       ELSE /\ listed' = filtered_tasks(tasks, filter_type)
            /\ out' = Result("list", "ok")
            /\ tasks' = SelectSeq(tasks, LAMBDA task : Keep(filter_type, task))
    /\ UNCHANGED <<phase, file, clock>>

list_tasks(filter_type) ==
    /\ phase = "loaded"
    /\ IF tasks = <<>>
       THEN /\ listed' = <<>>
            /\ out' = Result("list", "empty")
       ELSE /\ listed' = filtered_tasks(tasks, filter_type)
            /\ out' = Result("list", "ok")
    /\ UNCHANGED <<phase, tasks, file, clock>>

\* a loop that sets completed on every task
complete_all(list, p) == [i \in 1..Len(list) |-> [list[i] EXCEPT !.completed = TRUE]]

\* task.completed = not task.completed
toggle_completed(list, p) ==
    [list EXCEPT ![p].completed = ~list[p].completed]

\* task = self.tasks[...]; task.completed = True
set_completed(list, p) == [list EXCEPT ![p].completed = TRUE]

mark_task_complete(task_index) ==
    /\ phase = "loaded"
    /\ IF InRange(task_index - 1, Len(tasks))
       THEN LET p == Position(task_index - 1, Len(tasks))
                marked == set_completed(tasks, p)
            IN  \E o \in save_tasks(marked) :
                  /\ tasks' = marked
                  /\ file' = o.file
                  /\ phase' = IF o.raised THEN "crashed" ELSE "loaded"
                  /\ out' = Result("mark",
                                   IF o.raised THEN "raised" ELSE "ok")
                  /\ listed' = <<>>
       ELSE /\ out' = Result("mark", "invalid")
            /\ UNCHANGED <<phase, tasks, file, listed>>
    /\ UNCHANGED clock

remove_task(task_index) ==
    /\ phase = "loaded"
    /\ IF InRange(task_index - 1, Len(tasks))
       THEN LET p == Position(task_index - 1, Len(tasks))
                popped == RemoveAt(tasks, p)
            IN  \E o \in save_tasks(popped) :
                  /\ tasks' = popped
                  /\ file' = o.file
                  /\ phase' = IF o.raised THEN "crashed" ELSE "loaded"
                  /\ out' = Result("remove",
                                   IF o.raised THEN "raised" ELSE "ok")
                  /\ listed' = <<>>
       ELSE /\ out' = Result("remove", "invalid")
            /\ UNCHANGED <<phase, tasks, file, listed>>
    /\ UNCHANGED clock

AddStep == \E inp \in AddInputs : add_task(inp)
ListStep == \E f \in Filters : list_tasks(f)
MarkStep == \E i \in Indices : mark_task_complete(i)
RemoveStep == \E i \in Indices : remove_task(i)

Next == Tick \/ Start \/ Exit \/ AddStep \/ ListStep \/ MarkStep \/ RemoveStep

Spec == Init /\ [][Next]_vars

(* ------------------------------ claims --------------------------------- *)
Serialized(list) == json_dump([i \in 1..Len(list) |-> to_dict(list[i])])

Created(list) == [i \in 1..Len(list) |-> list[i].created_at]

\* C1: after every add, mark_complete or remove that returns having done
\* its mutation, the backing file holds exactly the serialization of the
\* whole in-memory sequence, in order, with nothing left of what it held.
C1_FileIsFullRewrite ==
    (out.op \in {"add", "mark", "remove"} /\ out.res = "ok")
        => file = FileOf(Serialized(tasks))

\* a remove returned and the file, which held two records, now holds one
C1_Witness ==
    /\ out = Result("remove", "ok")
    /\ Len(tasks) = 1
    /\ file = FileOf(Serialized(tasks))

\* C2: for every index outside [1, length], mark_complete(index) reports
\* InvalidIndex, completes no record and leaves memory and file unchanged
\* (stated for the calls in which no file write fails).
C2_MarkOutsideRangeFails ==
    [][\A idx \in Indices :
          (/\ idx \notin 1..Len(tasks)
           /\ mark_task_complete(idx)
           /\ out'.res # "raised")
              => (out'.res = "invalid" /\ tasks' = tasks /\ file' = file)]_vars

\* C3: for every index outside [1, length], remove(index) reports
\* InvalidIndex, removes no record and leaves memory and file unchanged
\* (stated for the calls in which no file write fails).
C3_RemoveOutsideRangeFails ==
    [][\A idx \in Indices :
          (/\ idx \notin 1..Len(tasks)
           /\ remove_task(idx)
           /\ out'.res # "raised")
              => (out'.res = "invalid" /\ tasks' = tasks /\ file' = file)]_vars

\* the file parses as an array and one of its records is malformed
HasMalformedRecord(f) ==
    /\ f.exists
    /\ IsArrayText(f.text)
    /\ \E i \in DOMAIN json_load(f.text).items :
          from_dict_raises(json_load(f.text).items[i])

\* C4: when the file parses as a sequence but holds a malformed record,
\* initializing the store does not fail and the store starts empty.
C4_MalformedRecordLoadsEmpty ==
    (out.op = "init" /\ HasMalformedRecord(file))
        => (out.res = "ok" /\ phase = "loaded" /\ tasks = <<>>)

\* C5: initializing a store never ends in a fatal error; an absent or an
\* unparseable file gives an empty sequence.
C5_InitNeverFatal ==
    out.op = "init"
        => /\ out.res = "ok"
           /\ phase = "loaded"
           /\ (~file.exists \/ json_load_raises(file.text)) => tasks = <<>>

\* C6: a fresh store initialized on the backing path, now or later, holds a
\* sequence equal to the running store's in-memory sequence.
C6_RestartRestoresSequence ==
    phase = "loaded"
        => \A t \in clock..MaxClock :
              load_tasks(file, t) = [raised |-> FALSE, tasks |-> tasks]

\* two records, one completed, one created off the second, after an add
C6_Witness ==
    /\ phase = "loaded"
    /\ out = Result("add", "ok")
    /\ Len(tasks) = 2
    /\ tasks[1].completed
    /\ tasks[2].created_at.usec # 0
    /\ tasks[2].due_date # None
    /\ clock < MaxClock

\* C7: the number the latest listing (under any filter) shows beside a task
\* is the index with which mark_complete completes and remove removes it.
C7_ListedIndexSelectsTask ==
    [][\A i \in DOMAIN listed :
          /\ (mark_task_complete(i) /\ out'.res = "ok")
                => tasks' = [tasks EXCEPT ![listed[i]].completed = TRUE]
          /\ (remove_task(i) /\ out'.res = "ok")
                => tasks' = RemoveAt(tasks, listed[i])]_vars

\* C8: when the file write fails during add, the backing file keeps exactly
\* the contents it had before the call.
C8_FailedAddLeavesFile ==
    [][((\E inp \in AddInputs : add_task(inp)) /\ out'.res = "raised")
          => file' = file]_vars

\* C9: deserialize(serialize(r)) equals r in all five fields, whenever the
\* deserialization runs.
C9_RoundTrip ==
    \A i \in DOMAIN tasks :
        /\ ~from_dict_raises(to_dict(tasks[i]))
        /\ from_dict(to_dict(tasks[i]), clock) = tasks[i]

\* a completed record with a due date and microseconds, read back later,
\* beside a record whose timestamp text has no microseconds part
C9_Witness ==
    \E i \in DOMAIN tasks :
        /\ tasks[i].completed
        /\ tasks[i].due_date # None
        /\ tasks[i].created_at.usec # 0
        /\ tasks[i].created_at # now
        /\ Len(to_dict(tasks[i]).created_at) = 2
        /\ \E j \in DOMAIN tasks : Len(to_dict(tasks[j]).created_at) = 1

\* C10: add gives a record the current time as created_at, and no later
\* step changes it: a step of a running store keeps every created_at, or
\* is an add that appends the current time, or is a remove that drops one;
\* and a store reloaded after exit holds the created_at values the exited
\* store held, not the reload time.
C10_CreatedAtFixed ==
    [][/\ phase = "loaded"
             => \/ Created(tasks') = Created(tasks)
                \/ /\ out'.op = "add"
                   /\ Created(tasks') = Append(Created(tasks), now)
                \/ /\ out'.op = "remove"
                   /\ \E p \in DOMAIN tasks :
                         Created(tasks') = RemoveAt(Created(tasks), p)
       /\ (out.op = "exit" /\ out'.op = "init")
             => Created(tasks') = Created(tasks)]_vars

\* a store reloaded, after exit, later than its record was created
C10_Witness ==
    /\ out = Result("init", "ok")
    /\ Len(tasks) = 2
    /\ tasks[2].created_at # now
    /\ tasks[2].created_at.usec # 0
    /\ tasks[1].created_at # tasks[2].created_at

\* C11: add appends exactly one record at the end, with completed = false,
\* the given description and due date and the given priority (medium when
\* none is given); the length grows by one and every record already there
\* keeps its position and its field values.
C11_AddAppendsOne ==
    [][(phase = "loaded" /\ out'.op = "add" /\ clock' = clock)
          => /\ Len(tasks') = Len(tasks) + 1
             /\ \A i \in DOMAIN tasks : tasks'[i] = tasks[i]
             /\ LET new == tasks'[Len(tasks')] IN
                  /\ new.completed = FALSE
                  /\ new.created_at = now
                  /\ \E inp \in AddInputs :
                        /\ new.description = inp.description
                        /\ new.due_date = inp.due_date
                        /\ new.priority = IF inp.priority = <<>>
                                          THEN "medium"
                                          ELSE inp.priority[1]]_vars

\* an add without a priority returned, behind a record completed earlier
C11_Witness ==
    /\ out = Result("add", "ok")
    /\ Len(tasks) = 2
    /\ tasks[1].completed
    /\ tasks[1].description = "b"
    /\ tasks[2].description = "a"
    /\ tasks[2].priority = "medium"
    /\ ~tasks[2].completed

\* C12: for every index in [1, length], a remove(index) that returns
\* removes exactly the record at that position: the length drops by one,
\* the records before it keep their index, every record after it moves down
\* by one, no record's fields change, and the file holds the result.
C12_RemoveDropsIndexed ==
    [][(phase = "loaded" /\ out' = Result("remove", "ok") /\ clock' = clock)
          => \A idx \in 1..Len(tasks) :
                remove_task(idx)
                   => /\ Len(tasks') = Len(tasks) - 1
                      /\ \A i \in 1..(idx - 1) : tasks'[i] = tasks[i]
                      /\ \A i \in idx..(Len(tasks) - 1) :
                            tasks'[i] = tasks[i + 1]
                      /\ file' = FileOf(Serialized(tasks'))]_vars

\* a remove returned and left a record, created off the second, at index 1
C12_Witness ==
    /\ out = Result("remove", "ok")
    /\ phase = "loaded"
    /\ Len(tasks) = 1
    /\ tasks[1].description = "b"
    /\ tasks[1].created_at.usec # 0
    /\ clock = MaxClock

\* C13: for every index in [1, length], a mark_complete(index) that returns
\* sets completed on the record at that position of the full sequence and
\* changes nothing else: length, order, every other record and every other
\* field are as before; the file holds the result.
C13_MarkSetsOnlyIndexed ==
    [][(phase = "loaded" /\ out' = Result("mark", "ok") /\ clock' = clock)
          => \A idx \in 1..Len(tasks) :
                mark_task_complete(idx)
                   => /\ Len(tasks') = Len(tasks)
                      /\ tasks'[idx].completed
                      /\ \A i \in DOMAIN tasks :
                            /\ i # idx => tasks'[i] = tasks[i]
                            /\ tasks'[i].description = tasks[i].description
                            /\ tasks'[i].priority = tasks[i].priority
                            /\ tasks'[i].due_date = tasks[i].due_date
                            /\ tasks'[i].created_at = tasks[i].created_at
                      /\ file' = FileOf(Serialized(tasks'))]_vars

\* a mark returned; the first record is completed, the second still pending
C13_Witness ==
    /\ out = Result("mark", "ok")
    /\ phase = "loaded"
    /\ Len(tasks) = 2
    /\ tasks[1].completed
    /\ ~tasks[2].completed

Range(seq) == {seq[i] : i \in DOMAIN seq}

Increasing(seq) == \A i, j \in DOMAIN seq : i < j => seq[i] < seq[j]

\* C14: list(completed) yields exactly the records with completed = true,
\* list(pending) exactly those with completed = false, list(none) the full
\* sequence, each in the original relative order; every record is in
\* exactly one of the completed and pending results.  What a listing of a
\* non-empty store shows is one of these three results.
C14_FilterCorrect ==
    phase = "loaded"
        => LET c == filtered_tasks(tasks, "completed")
               p == filtered_tasks(tasks, "pending")
               n == filtered_tasks(tasks, "none")
           IN  /\ Range(c) = {i \in DOMAIN tasks : tasks[i].completed}
               /\ Range(p) = {i \in DOMAIN tasks : ~tasks[i].completed}
               /\ n = [i \in 1..Len(tasks) |-> i]
               /\ Increasing(c) /\ Increasing(p)
               /\ Range(c) \cap Range(p) = {}
               /\ Len(c) + Len(p) = Len(tasks)
               /\ out = Result("list", "ok") => listed \in {c, p, n}
               /\ out = Result("list", "empty") => listed = <<>>

\* a listing of a pending and a completed record that shows only the second
C14_Witness ==
    /\ phase = "loaded"
    /\ out = Result("list", "ok")
    /\ Len(tasks) = 2
    /\ ~tasks[1].completed
    /\ tasks[2].completed
    /\ listed = <<2>>

\* C15: initializing a store does not write, create or alter the backing
\* file, and initializing again from the untouched file, then or later,
\* ends the same way with a sequence of identical content and order.
C15_LoadIdempotent ==
    [][(phase \in {"off", "crashed"} /\ clock' = clock)
          => /\ file' = file
             /\ \A t \in clock..MaxClock :
                   load_tasks(file', t)
                      = [raised |-> (phase' = "crashed"), tasks |-> tasks']]_vars

\* a store loaded, after time passed, from a file it left as it found it
C15_Witness ==
    /\ out = Result("init", "ok")
    /\ clock > 0
    /\ file = FileOf(json_dump(<<StoredPlain, StoredPadded>>))
    /\ Len(tasks) = 2
    /\ to_dict(tasks[2]) # StoredPadded

\* C16: list(filter), for every filter and every store state, leaves the
\* in-memory sequence (length, order, every field) and the backing file
\* unchanged.
C16_ListChangesNothing ==
    [][(phase = "loaded" /\ out'.op = "list" /\ clock' = clock)
          => (tasks' = tasks /\ file' = file /\ phase' = phase)]_vars

\* a filtered listing that showed one of two records, both still in memory
\* and in the file
C16_Witness ==
    /\ phase = "loaded"
    /\ out = Result("list", "ok")
    /\ Len(tasks) = 2
    /\ tasks[1].completed
    /\ ~tasks[2].completed
    /\ listed = <<1>>
    /\ file = FileOf(Serialized(tasks))

\* C17: completion is monotonic.  A step of a running store either is a
\* remove that drops one record and changes none, or keeps every record at
\* its position with a completed flag that is still set if it was set; a
\* store reloaded after exit, from the file it wrote, holds the flags the
\* exited store held; and a mark_complete of an already completed record
\* leaves the sequence unchanged.
C17_CompletedStays ==
    [][/\ phase = "loaded"
             => \/ /\ out'.op = "remove"
                   /\ \E p \in DOMAIN tasks : tasks' = RemoveAt(tasks, p)
                \/ /\ Len(tasks') >= Len(tasks)
                   /\ \A i \in DOMAIN tasks :
                         tasks[i].completed => tasks'[i].completed
       /\ (out.op = "exit" /\ out'.op = "init")
             => /\ Len(tasks') = Len(tasks)
                /\ \A i \in DOMAIN tasks :
                      tasks'[i].completed = tasks[i].completed
       /\ (phase = "loaded" /\ out'.op = "mark" /\ clock' = clock)
             => \A idx \in 1..Len(tasks) :
                   (tasks[idx].completed /\ mark_task_complete(idx))
                      => tasks' = tasks]_vars

\* a mark returned on a store whose records are all completed, late enough
\* for a reload to lie behind it
C17_Witness ==
    /\ phase = "loaded"
    /\ out = Result("mark", "ok")
    /\ Len(tasks) = 2
    /\ tasks[1].completed
    /\ tasks[2].completed
    /\ tasks[1].created_at # tasks[2].created_at
    /\ clock = MaxClock

\* the same record, whatever its completed flag
SameRecord(x, y) ==
    /\ x.description = y.description
    /\ x.priority = y.priority
    /\ x.due_date = y.due_date
    /\ x.created_at = y.created_at

\* every record of s is in t, in the same relative order
Embeds(s, t) ==
    \E f \in [DOMAIN s -> DOMAIN t] :
        /\ \A i, j \in DOMAIN s : i < j => f[i] < f[j]
        /\ \A i \in DOMAIN s : SameRecord(s[i], t[f[i]])

\* the records the sequence holds, not counting one whose add raised
Held ==
    IF out = Result("add", "raised")
    THEN SubSeq(tasks, 1, Len(tasks) - 1)
    ELSE tasks

\* C18: across add, mark_complete, remove, list and reload, the records
\* still in the sequence keep their relative order, and a record leaves the
\* sequence only through a remove call (here also one whose write failed).
C18_OrderStable ==
    [][\/ Embeds(Held, tasks')
       \/ /\ phase = "loaded"
          /\ out'.op = "remove"
          /\ out'.res \in {"ok", "raised"}
          /\ \E p \in DOMAIN tasks :
                tasks' = RemoveAt(tasks, p) /\ Embeds(tasks', tasks)]_vars

====
